---- MODULE Spec2Model ----
(***************************************************************************)
(* The multi-file video converter (React component VideoConverter of       *)
(* src/unnamed/part_000, identical in logic to src/unnamed/part_001).      *)
(*                                                                         *)
(* The component's state is the React state (conversionState,              *)
(* uploadedFiles, outputFormat), the ref ffmpegRef and the in-flight       *)
(* invocations of the async handler onDrop.  Every step between two        *)
(* awaits of an engine call is one action: a continuation that runs only   *)
(* microtasks (an await of an already initialised engine, the return of    *)
(* convertVideo into the loop of onDrop) is part of the same action.       *)
(* User events (drop, reset, format change, download) are taken against    *)
(* the rendered state, which is the current state.                         *)
(***************************************************************************)
EXTENDS Integers, Sequences, FiniteSets, TLC

\* ------------------------------------------------------------ bounds

\* File objects the user hands to the dropzone over one run of Spec.
MaxFiles == 2
\* File objects the user hands to the dropzone over one run of SpecRace.
MaxRaceFiles == 3
\* File objects the user hands to the dropzone over one run of SpecQueue.
MaxQueueFiles == 6
\* Engine calls that reject over one run.
MaxFailures == 1
\* Clicks on "Clear All Files" over one run.
MaxResets == 1
\* File objects the user hands to the dropzone over one run of SpecFormats.
MaxFormatFiles == 1
\* File objects the user hands to the single-file converter over one run.
MaxSingleFiles == 2

\* ------------------------------------------------------- program constants

\* The values of OUTPUT_FORMATS.
OUTPUT_FORMATS == <<"mp4", "webm", "mkv", "mov", "avi", "m4v", "flv", "gif">>

\* The formats the user picks from in the model (a subset of OUTPUT_FORMATS).
PickedFormats == {"mp4", "webm"}

\* The extensions of the dropped files' names in the model (from the accept list).
SourceExts == {"mkv"}

\* The progress fractions the engine reports, as percentages (progress * 100).
ProgressPercents == {100}

\* The same, in the runs of SpecProgress: the engine reports halfway too.
FinePercents == {50, 100}

\* The values the engine's calls reject with.
EngineErrors == {"ErrnoError: FS error", "Error: called FFmpeg.terminate()"}

\* 5 in "5 - currentCount".
MaxJobs == 5

\* maxFiles: 5 of useDropzone: the most files one drop hands to onDrop.
maxFiles == 5

\* downloadUrl?: string, when it is not set.
NoUrl == 0

\* useRef<FFmpeg | null>(null)
Null == 0

\* progress?: number, when it is not set.
NoProgress == -1

\* No <a> element: downloadVideo removes the one it made before it returns.
NoLink == [href |-> 0, download |-> [stem |-> 0, ext |-> ""], file |-> 0]

\* error?: string, when it is not set.
NoError == "undefined"

VARIABLES
    conversionState,   \* useState<ConversionProgress>: [phase, progress]
    uploadedFiles,     \* useState<FileConversion[]>
    outputFormat,      \* useState<string>
    ffmpegRef,         \* useRef<FFmpeg | null>: 0 is null, else the instance
    calls,             \* the onDrop invocations that are suspended at an await
    instances,         \* how many FFmpeg instances `new FFmpeg()` has made (each is loaded once)
    fs,                \* the entries of the engines' file systems
    objectURLs,        \* handle -> the blob's type and the times it was revoked
    nextFile,          \* the next File object's identity
    failures,          \* engine calls that have rejected
    resets,            \* resetConverter calls
    submitted,         \* history: the files handed to onDrop since the last reset
    submitFormat,      \* history: file -> outputFormat when it was dropped
    engineResult,      \* history: file -> how the engine calls of its job ended
    link,              \* the <a> element downloadVideo clicked in the last step
    single             \* the state of the single-file converter (src/src/VideoConverter.tsx)

\* The state of the multi-file converter.
multi == <<conversionState, uploadedFiles, outputFormat, ffmpegRef, calls,
           instances, fs, objectURLs, nextFile, failures, resets,
           submitted, submitFormat, engineResult, link>>

vars == <<conversionState, uploadedFiles, outputFormat, ffmpegRef, calls,
          instances, fs, objectURLs, nextFile, failures, resets,
          submitted, submitFormat, engineResult, link, single>>

\* ------------------------------------------------------------ helpers

Min(a, b) == IF a < b THEN a ELSE b

Max(a, b) == IF a > b THEN a ELSE b

\* Array.prototype.slice(0, end): a negative end counts from the end of the array.
Slice0(s, end) ==
    LET e == IF end < 0 THEN Max(Len(s) + end, 0) ELSE Min(end, Len(s))
    IN  SubSeq(s, 1, e)

\* A File object: its identity and its name, "<stem>.<ext>" (ext "" when the name
\* holds no dot).
File(id, ext) == [id |-> id, name |-> [stem |-> id, ext |-> ext]]

\* name.replace(/\.[^.]+$/, `.${ext}`): the last extension is replaced; a name
\* without one is left as it is.
ReplaceExt(name, ext) ==
    IF name.ext = "" THEN name ELSE [name EXCEPT !.ext = ext]

\* Array.prototype.splice(start, deleteCount), as the array it leaves.
Splice(s, start, deleteCount) ==
    LET from == Min(start, Len(s))
        count == Max(Min(deleteCount, Len(s) - from), 0)
    IN  SubSeq(s, 1, from) \o SubSeq(s, from + count + 1, Len(s))

\* The args convertVideo passes to ffmpeg.exec.
Args_NoGifCase(format, inputName, outputName) ==
    <<"-i", inputName, "-c", "copy", "-movflags", "+faststart", outputName>>

Args(format, inputName, outputName) ==
    LET args == <<"-i", inputName,
                  "-c", IF format = "gif" THEN "gif" ELSE "copy",
                  "-movflags", "+faststart",
                  outputName>>
    IN  IF format = "gif" THEN Splice(args, 3, 2) ELSE args

\* const filesToProcess = acceptedFiles.slice(0, 5 - currentCount)
FilesToProcess_NoLimit(acceptedFiles, currentCount) == acceptedFiles

FilesToProcess(acceptedFiles, currentCount) ==
    LET availableSlots == MaxJobs - currentCount
    IN  Slice0(acceptedFiles, availableSlots)

\* filesToProcess.map(file => ({ file, status: 'pending', progress: 0 }))
NewFileConversion(file) ==
    [file |-> file, status |-> "pending", progress |-> 0,
     downloadUrl |-> NoUrl, error |-> NoError]

\* setUploadedFiles(prev => [...prev, ...newFiles])
AppendFiles_Replace(prev, newFiles) == newFiles

AppendFiles(prev, newFiles) == prev \o newFiles

\* { ...fc, ...patch }: the fields of patch replace those of fc.
Spread(fc, patch) ==
    [k \in DOMAIN fc |-> IF k \in DOMAIN patch THEN patch[k] ELSE fc[k]]

\* { ...fc, status: 'converting', progress: 0 }
MarkConverting ==
    [status |-> "converting", progress |-> 0]

\* { ...fc, status: 'completed', progress: 100, downloadUrl: outputUrl }
MarkCompleted(url) ==
    [status |-> "completed", progress |-> 100, downloadUrl |-> url]

\* { ...fc, status: 'error', error: 'Conversion failed' }
MarkError ==
    [status |-> "error", error |-> "Conversion failed"]

\* prev.map(fc => fc.file === fileConversion.file ? { ...fc, ...patch } : fc)
MapFile_All(prev, file, patch) ==
    [i \in DOMAIN prev |-> Spread(prev[i], patch)]

MapFile(prev, file, patch) ==
    [i \in DOMAIN prev |->
        IF prev[i].file = file THEN Spread(prev[i], patch) ELSE prev[i]]

\* The job an onDrop invocation is driving.
Current(c) == c.newFiles[c.idx]

\* The outputFormat convertVideo reads: the one its closure captured, which is the
\* one rendered when the files were dropped.
ConvertFormat_Current(c) == outputFormat

ConvertFormat(c) == c.outputFormat

\* The names convertVideo gives the engine entries of a job, in the file system
\* of its instance: `input_${Date.now()}.${ext of the file's name}` and
\* `output_${Date.now()}.${outputFormat}`.
InputName(c) == <<c.ffmpeg, "input", Current(c).file.id, Current(c).file.name.ext>>

OutputName(c) == <<c.ffmpeg, "output", Current(c).file.id, ConvertFormat(c)>>

\* outputFormat === 'gif' ? 'image/gif' : `video/${outputFormat}`
MimeType(format) ==
    IF format = "gif" THEN [type |-> "image", subtype |-> "gif"]
    ELSE [type |-> "video", subtype |-> format]

\* URL.createObjectURL(outputBlob): a handle for the blob, not revoked yet.
CreateObjectURL(blob) == [type |-> blob, revoked |-> 0]

\* uploadedFiles.forEach(fc => { if (fc.downloadUrl) URL.revokeObjectURL(fc.downloadUrl) })
RevokeAll_Twice(urls, files) ==
    [h \in DOMAIN urls |->
        [urls[h] EXCEPT !.revoked = @ + 2 * Cardinality({i \in DOMAIN files :
                                                  files[i].downloadUrl = h})]]

RevokeAll(urls, files) ==
    [h \in DOMAIN urls |->
        [urls[h] EXCEPT !.revoked = @ + Cardinality({i \in DOMAIN files :
                                              files[i].downloadUrl = h})]]

\* uploadedFiles.every(fc => fc.file === fileConversion.file ||
\*     fc.status === 'completed' || fc.status === 'error'),
\* on the uploadedFiles the callback closed over.
AllCompleted(c) ==
    \A i \in DOMAIN c.uploadedFiles :
        \/ c.uploadedFiles[i].file = Current(c).file
        \/ c.uploadedFiles[i].status \in {"completed", "error"}

\* The dropzone and the format radios: disabled while loading or converting.
Disabled_Never == FALSE

Disabled == conversionState.phase \in {"loading", "converting"}

\* What a continuation leaves behind: the suspended invocation (none when the
\* loop of onDrop has ended) and the state it has set.
Outcome(cs, files, cst, inst) ==
    [calls |-> cs, uploadedFiles |-> files, conversionState |-> cst,
     instances |-> inst]

\* convertVideo from the return of initializeFFmpeg to the await of fetchFile.
Begin(c, ffmpeg, files) ==
    Outcome({[c EXCEPT !.pc = "fetchFile", !.ffmpeg = ffmpeg,
                       !.progress = 0, !.outputUrl = NoUrl,
                       !.args = <<>>, !.error = NoError]},
            MapFile(files, Current(c).file, MarkConverting),
            [phase |-> "converting", progress |-> 0],
            instances)

\* initializeFFmpeg when ffmpegRef.current is null, up to the await of load().
StartLoad(c, files) ==
    Outcome({[c EXCEPT !.pc = "load", !.ffmpeg = instances + 1,
                       !.progress = 0, !.outputUrl = NoUrl,
                       !.args = <<>>, !.error = NoError]},
            files,
            [phase |-> "loading", progress |-> NoProgress],
            instances + 1)

\* initializeFFmpeg as convertVideo calls it: the instance held, or a new one.
InitializeFFmpeg(c, files) ==
    IF ffmpegRef # Null THEN Begin(c, ffmpegRef, files) ELSE StartLoad(c, files)

\* for (const fileConversion of newFiles) await convertVideo(fileConversion):
\* the loop of onDrop at job c.idx, with the state set so far.
Loop(c, files, cst) ==
    IF c.idx > Len(c.newFiles)
    THEN Outcome({}, files, cst, instances)
    ELSE InitializeFFmpeg(c, files)

\* The call of an invocation throws error: the `error` of the catch block.
Thrown(c, error) == [c EXCEPT !.error = error]

\* The catch block of initializeFFmpeg: what it throws for a load() that rejected.
InitError(error) == "Error: Failed to initialize video converter"

\* The catch block of convertVideo, were it to show the error it caught.
Catch_Raw(c) ==
    Loop([c EXCEPT !.idx = c.idx + 1],
         MapFile(uploadedFiles, Current(c).file,
                 [status |-> "error", error |-> c.error]),
         conversionState)

\* The catch block of convertVideo, were the error to leave the loop of onDrop.
Catch_Abort(c) ==
    Outcome({}, MapFile(uploadedFiles, Current(c).file, MarkError),
            conversionState, instances)

\* The catch block of convertVideo, and the loop going on to the next job.
Catch(c) ==
    Loop([c EXCEPT !.idx = c.idx + 1],
         MapFile(uploadedFiles, Current(c).file, MarkError),
         conversionState)

Apply(c, out) ==
    /\ calls' = (calls \ {c}) \cup out.calls
    /\ uploadedFiles' = out.uploadedFiles
    /\ conversionState' = out.conversionState
    /\ instances' = out.instances

Ended(c, how) == engineResult' = [engineResult EXCEPT ![Current(c).file.id] = how]

TypeOK ==
    /\ conversionState.phase \in {"idle", "loading", "converting", "completed", "error"}
    /\ conversionState.progress \in
           {NoProgress, 0, 100} \cup ProgressPercents \cup FinePercents
    /\ \A i \in DOMAIN uploadedFiles :
          uploadedFiles[i].status \in {"pending", "converting", "completed", "error"}
    /\ outputFormat \in {OUTPUT_FORMATS[i] : i \in DOMAIN OUTPUT_FORMATS}
    /\ ffmpegRef \in 0..instances
    /\ nextFile \in 1..(Max(MaxRaceFiles, MaxQueueFiles) + 1)

\* ------------------------------------------------------------ initial state

\* The single-file converter after its first render.
SingleInit ==
    [conversionState |-> [phase |-> "idle", progress |-> NoProgress],
     uploadedFile |-> Null,
     convertedVideoUrl |-> Null,
     ffmpegRef |-> Null,
     calls |-> {},
     instances |-> 0,
     fs |-> {},
     objectURLs |-> <<>>,
     nextFile |-> 1,
     failures |-> 0,
     resets |-> 0,
     link |-> NoLink]

Init ==
    /\ single = SingleInit
    /\ conversionState = [phase |-> "idle", progress |-> NoProgress]
    /\ uploadedFiles = <<>>
    /\ outputFormat = "mp4"
    /\ ffmpegRef = Null
    /\ calls = {}
    /\ instances = 0
    /\ fs = {}
    /\ objectURLs = <<>>
    /\ nextFile = 1
    /\ failures = 0
    /\ resets = 0
    /\ submitted = <<>>
    /\ submitFormat = <<>>
    /\ engineResult = <<>>
    /\ link = NoLink

\* ------------------------------------------------------------ user events

\* onDrop(acceptedFiles): n files of extension ext are dropped on the dropzone.
OnDrop(n, ext, limit) ==
    /\ ~Disabled
    /\ Len(uploadedFiles) < MaxJobs          \* a dropzone is rendered
    /\ nextFile + n - 1 <= limit
    /\ LET acceptedFiles == [i \in 1..n |-> File(nextFile + i - 1, ext)]
           currentCount == Len(uploadedFiles)
           filesToProcess == FilesToProcess(acceptedFiles, currentCount)
           newFiles == [i \in DOMAIN filesToProcess |->
                           NewFileConversion(filesToProcess[i])]
           c == [newFiles |-> newFiles, idx |-> 1, pc |-> "start",
                 outputFormat |-> outputFormat, uploadedFiles |-> uploadedFiles,
                 ffmpeg |-> Null, outputUrl |-> NoUrl, progress |-> 0,
                 args |-> <<>>, error |-> NoError]
       IN  /\ Apply(c, Loop(c, AppendFiles(uploadedFiles, newFiles),
                            conversionState))
           /\ nextFile' = nextFile + n
           /\ submitted' = submitted \o [i \in 1..n |-> nextFile + i - 1]
           /\ submitFormat' = submitFormat \o [i \in 1..n |-> outputFormat]
           /\ engineResult' = engineResult \o [i \in 1..n |-> "none"]
    /\ link' = NoLink
    /\ UNCHANGED <<single, outputFormat, ffmpegRef, fs, objectURLs, failures, resets>>

\* resetConverter, were it to drop the engine as well.
ResetConverter_Teardown ==
    /\ Len(uploadedFiles) > 0
    /\ resets < MaxResets
    /\ objectURLs' = RevokeAll(objectURLs, uploadedFiles)
    /\ uploadedFiles' = <<>>
    /\ conversionState' = [phase |-> "idle", progress |-> NoProgress]
    /\ ffmpegRef' = Null
    /\ resets' = resets + 1
    /\ submitted' = <<>>
    /\ link' = NoLink
    /\ UNCHANGED <<single, outputFormat, calls, instances, fs, nextFile,
                   failures, submitFormat, engineResult>>

\* resetConverter: the "Clear All Files" button, rendered with the file list.
ResetConverter ==
    /\ Len(uploadedFiles) > 0
    /\ resets < MaxResets
    /\ objectURLs' = RevokeAll(objectURLs, uploadedFiles)
    /\ uploadedFiles' = <<>>
    /\ conversionState' = [phase |-> "idle", progress |-> NoProgress]
    /\ resets' = resets + 1
    /\ submitted' = <<>>
    /\ link' = NoLink
    /\ UNCHANGED <<single, outputFormat, ffmpegRef, calls, instances, fs, nextFile,
                   failures, submitFormat, engineResult>>

\* onChange of a format radio: setOutputFormat(e.target.value).
SetOutputFormat(fmt) ==
    /\ ~Disabled
    /\ fmt # outputFormat
    /\ outputFormat' = fmt
    /\ link' = NoLink
    /\ UNCHANGED <<single, conversionState, uploadedFiles, ffmpegRef, calls, instances,
                   fs, objectURLs, nextFile, failures, resets, submitted,
                   submitFormat, engineResult>>

\* downloadVideo(fileConversion), were every row to render a Download button.
DownloadVideo_AnyStatus(i) ==
    /\ i \in DOMAIN uploadedFiles
    /\ LET fileConversion == uploadedFiles[i]
           ext == outputFormat
       IN  link' =
             IF fileConversion.downloadUrl # NoUrl
             THEN [href |-> fileConversion.downloadUrl,
                   download |-> ReplaceExt(fileConversion.file.name, ext),
                   file |-> fileConversion.file.id]
             ELSE NoLink
    /\ UNCHANGED <<single, conversionState, uploadedFiles, outputFormat, ffmpegRef, calls,
                   instances, fs, objectURLs, nextFile, failures, resets,
                   submitted, submitFormat, engineResult>>

\* downloadVideo(fileConversion): the Download button of a completed row.
DownloadVideo(i) ==
    /\ i \in DOMAIN uploadedFiles
    /\ uploadedFiles[i].status = "completed"
    /\ LET fileConversion == uploadedFiles[i]
           ext == outputFormat
       IN  link' =
             IF fileConversion.downloadUrl # NoUrl
             THEN [href |-> fileConversion.downloadUrl,
                   download |-> ReplaceExt(fileConversion.file.name, ext),
                   file |-> fileConversion.file.id]
             ELSE NoLink
    /\ UNCHANGED <<single, conversionState, uploadedFiles, outputFormat, ffmpegRef, calls,
                   instances, fs, objectURLs, nextFile, failures, resets,
                   submitted, submitFormat, engineResult>>

\* ------------------------------------------------------------ engine events

\* await ffmpeg.load() resolves: the instance is stored and convertVideo goes on.
LoadResolve(c) ==
    /\ c.pc = "load"
    /\ ffmpegRef' = c.ffmpeg
    /\ Apply(c, Begin(c, c.ffmpeg, uploadedFiles))
    /\ link' = NoLink
    /\ UNCHANGED <<single, outputFormat, fs, objectURLs, nextFile, failures, resets,
                   submitted, submitFormat, engineResult>>

\* await ffmpeg.load() rejects: initializeFFmpeg throws, convertVideo catches.
LoadReject(c) ==
    /\ c.pc = "load"
    /\ failures < MaxFailures
    /\ failures' = failures + 1
    /\ \E error \in EngineErrors : Apply(c, Catch(Thrown(c, InitError(error))))
    /\ Ended(c, "load")
    /\ link' = NoLink
    /\ UNCHANGED <<single, outputFormat, ffmpegRef, fs, objectURLs, nextFile, resets,
                   submitted, submitFormat>>

\* await fetchFile(fileConversion.file) resolves; ffmpeg.writeFile is called.
FetchFileResolve(c) ==
    /\ c.pc = "fetchFile"
    /\ calls' = (calls \ {c}) \cup {[c EXCEPT !.pc = "writeFile"]}
    /\ link' = NoLink
    /\ UNCHANGED <<single, conversionState, uploadedFiles, outputFormat, ffmpegRef,
                   instances, fs, objectURLs, nextFile, failures, resets,
                   submitted, submitFormat, engineResult>>

\* await ffmpeg.writeFile(inputName, ...) resolves; ffmpeg.exec(args) is called.
WriteFileResolve(c) ==
    /\ c.pc = "writeFile"
    /\ fs' = fs \cup {InputName(c)}
    /\ calls' = (calls \ {c}) \cup
                {[c EXCEPT !.pc = "exec",
                           !.args = Args(ConvertFormat(c), "inputName", "outputName")]}
    /\ link' = NoLink
    /\ UNCHANGED <<single, conversionState, uploadedFiles, outputFormat, ffmpegRef,
                   instances, objectURLs, nextFile, failures, resets,
                   submitted, submitFormat, engineResult>>

\* ffmpeg.on('progress', ...): the engine reports progress while exec runs.
Progress(c, percent) ==
    /\ c.pc = "exec"
    /\ percent >= c.progress
    /\ conversionState' = [conversionState EXCEPT !.phase = "converting",
                                                  !.progress = percent]
    /\ calls' = (calls \ {c}) \cup {[c EXCEPT !.progress = percent]}
    /\ link' = NoLink
    /\ UNCHANGED <<single, uploadedFiles, outputFormat, ffmpegRef, instances, fs,
                   objectURLs, nextFile, failures, resets, submitted, submitFormat,
                   engineResult>>

\* await ffmpeg.exec(args) resolves; ffmpeg.readFile(outputName) is called.
ExecResolve(c) ==
    /\ c.pc = "exec"
    /\ fs' = fs \cup {OutputName(c)}
    /\ calls' = (calls \ {c}) \cup {[c EXCEPT !.pc = "readFile"]}
    /\ link' = NoLink
    /\ UNCHANGED <<single, conversionState, uploadedFiles, outputFormat, ffmpegRef,
                   instances, objectURLs, nextFile, failures, resets,
                   submitted, submitFormat, engineResult>>

\* await ffmpeg.readFile(outputName) resolves: the blob URL is created, the job is
\* set completed and ffmpeg.deleteFile(inputName) is called.
ReadFileResolve(c) ==
    /\ c.pc = "readFile"
    /\ LET outputUrl == Current(c).file.id
           mimeType == MimeType(ConvertFormat(c))
       IN  /\ objectURLs' = objectURLs @@ (outputUrl :> CreateObjectURL(mimeType))
           /\ uploadedFiles' = MapFile(uploadedFiles, Current(c).file,
                                       MarkCompleted(outputUrl))
           /\ calls' = (calls \ {c}) \cup
                       {[c EXCEPT !.pc = "deleteInput", !.outputUrl = outputUrl]}
    /\ link' = NoLink
    /\ UNCHANGED <<single, conversionState, outputFormat, ffmpegRef, instances, fs,
                   nextFile, failures, resets, submitted, submitFormat,
                   engineResult>>

\* await ffmpeg.deleteFile(inputName) resolves; deleteFile(outputName) is called.
DeleteInputResolve(c) ==
    /\ c.pc = "deleteInput"
    /\ fs' = fs \ {InputName(c)}
    /\ calls' = (calls \ {c}) \cup {[c EXCEPT !.pc = "deleteOutput"]}
    /\ link' = NoLink
    /\ UNCHANGED <<single, conversionState, uploadedFiles, outputFormat, ffmpegRef,
                   instances, objectURLs, nextFile, failures, resets,
                   submitted, submitFormat, engineResult>>

\* await ffmpeg.deleteFile(outputName) resolves: the "all completed" check, the
\* return of convertVideo and the next job of the loop.
DeleteOutputResolve(c) ==
    /\ c.pc = "deleteOutput"
    /\ fs' = fs \ {OutputName(c)}
    /\ Apply(c, Loop([c EXCEPT !.idx = c.idx + 1],
                     uploadedFiles,
                     IF AllCompleted(c)
                     THEN [phase |-> "completed", progress |-> 100]
                     ELSE conversionState))
    /\ Ended(c, "ok")
    /\ link' = NoLink
    /\ UNCHANGED <<single, outputFormat, ffmpegRef, objectURLs, nextFile, failures, resets,
                   submitted, submitFormat>>

\* An awaited call of fetchFile, writeFile, exec, readFile or deleteFile rejects:
\* the catch block of convertVideo runs.
EngineReject(c) ==
    /\ c.pc \in {"fetchFile", "writeFile", "exec", "readFile", "deleteInput",
                 "deleteOutput"}
    /\ failures < MaxFailures
    /\ failures' = failures + 1
    /\ \E error \in EngineErrors : Apply(c, Catch(Thrown(c, error)))
    /\ Ended(c, c.pc)
    /\ link' = NoLink
    /\ UNCHANGED <<single, outputFormat, ffmpegRef, fs, objectURLs, nextFile, resets,
                   submitted, submitFormat>>

\* The events of the engine: the awaited calls resolve or reject, progress is
\* reported.
EngineNext ==
    \/ \E c \in calls : LoadResolve(c)
    \/ \E c \in calls : LoadReject(c)
    \/ \E c \in calls : FetchFileResolve(c)
    \/ \E c \in calls : WriteFileResolve(c)
    \/ \E c \in calls : \E percent \in ProgressPercents : Progress(c, percent)
    \/ \E c \in calls : ExecResolve(c)
    \/ \E c \in calls : ReadFileResolve(c)
    \/ \E c \in calls : DeleteInputResolve(c)
    \/ \E c \in calls : DeleteOutputResolve(c)
    \/ \E c \in calls : EngineReject(c)

\* Every interleaving of the user's events with the engine's.
Next ==
    \/ \E n \in 1..maxFiles, ext \in SourceExts : OnDrop(n, ext, MaxFiles)
    \/ ResetConverter
    \/ \E fmt \in PickedFormats : SetOutputFormat(fmt)
    \/ \E i \in 1..MaxJobs : DownloadVideo(i)
    \/ EngineNext

Spec == Init /\ [][Next]_vars

\* Every interleaving again, with one more file.
NextRace ==
    \/ \E n \in 1..maxFiles, ext \in SourceExts : OnDrop(n, ext, MaxRaceFiles)
    \/ ResetConverter
    \/ \E fmt \in PickedFormats : SetOutputFormat(fmt)
    \/ \E i \in 1..MaxJobs : DownloadVideo(i)
    \/ EngineNext

SpecRace == Init /\ [][NextRace]_vars

\* The runs in which the user drops files only when no earlier invocation of
\* onDrop is still suspended (a reset may still come at any time) and leaves the
\* format and the downloads alone: long queues.
NextQueue ==
    \/ /\ calls = {}
       /\ \E n \in 1..maxFiles, ext \in SourceExts : OnDrop(n, ext, MaxQueueFiles)
    \/ ResetConverter
    \/ EngineNext

SpecQueue == Init /\ [][NextQueue]_vars

\* The runs in which the user picks any of the formats, for one file at a time.
NextFormats ==
    \/ \E fmt \in {OUTPUT_FORMATS[i] : i \in DOMAIN OUTPUT_FORMATS} :
          SetOutputFormat(fmt)
    \/ \E n \in 1..maxFiles, ext \in SourceExts : OnDrop(n, ext, MaxFormatFiles)
    \/ EngineNext

SpecFormats == Init /\ [][NextFormats]_vars

\* The runs in which the engine reports its progress in finer steps.
NextProgress ==
    \/ \E n \in 1..maxFiles, ext \in SourceExts : OnDrop(n, ext, MaxFiles)
    \/ ResetConverter
    \/ EngineNext
    \/ \E c \in calls : \E percent \in FinePercents : Progress(c, percent)

SpecProgress == Init /\ [][NextProgress]_vars

\* ------------------------------------------- the single-file converter
\* src/src/VideoConverter.tsx: one uploaded file, converted from mkv to mp4.

\* The dropzone of the single-file converter: rendered when no file is uploaded,
\* disabled while loading or converting.
SingleDropzone ==
    /\ single.uploadedFile = Null
    /\ single.conversionState.phase \notin {"loading", "converting"}

\* convertVideo(file) up to its first await of an engine call: initializeFFmpeg
\* returns the instance held, or makes one and awaits its load().
SingleConvertVideo(s, file) ==
    IF s.ffmpegRef # Null
    THEN [s EXCEPT !.conversionState = [phase |-> "converting", progress |-> 0],
                   !.calls = @ \cup {[file |-> file, pc |-> "fetchFile",
                                      ffmpeg |-> s.ffmpegRef]}]
    ELSE [s EXCEPT !.conversionState = [phase |-> "loading", progress |-> NoProgress],
                   !.instances = @ + 1,
                   !.calls = @ \cup {[file |-> file, pc |-> "load",
                                      ffmpeg |-> s.instances + 1]}]

\* A suspended invocation goes on to its next await.
SingleGoto(s, c, pc) ==
    [s EXCEPT !.calls = (@ \ {c}) \cup {[c EXCEPT !.pc = pc]}]

\* The catch block of convertVideo, were it to leave the phase as it is.
SingleCatch_Silent(s, c) ==
    [s EXCEPT !.calls = @ \ {c},
              !.failures = @ + 1]

\* The catch block of convertVideo; the invocation ends.
SingleCatch(s, c) ==
    [s EXCEPT !.conversionState = [phase |-> "error", progress |-> NoProgress],
              !.calls = @ \ {c},
              !.failures = @ + 1]

\* Every step of the single-file converter clears the link of the step before
\* and leaves the multi-file converter alone.
SingleStep(s) ==
    /\ single' = [s EXCEPT !.link = NoLink]
    /\ UNCHANGED multi

\* onDrop(acceptedFiles): one .mkv file is dropped.
SingleOnDrop ==
    /\ SingleDropzone
    /\ single.nextFile <= MaxSingleFiles
    /\ LET file == single.nextFile
       IN  SingleStep(SingleConvertVideo(
               [single EXCEPT !.uploadedFile = file,
                              !.convertedVideoUrl = Null,
                              !.nextFile = @ + 1],
               file))

\* resetConverter: the "Upload New File" button, rendered with the uploaded file.
SingleResetConverter ==
    /\ single.uploadedFile # Null
    /\ single.resets < MaxResets
    /\ SingleStep(
           [single EXCEPT
               !.uploadedFile = Null,
               !.convertedVideoUrl = Null,
               !.conversionState = [phase |-> "idle", progress |-> NoProgress],
               !.objectURLs = [h \in DOMAIN @ |->
                                  IF h = single.convertedVideoUrl
                                  THEN @[h] + 1 ELSE @[h]],
               !.resets = @ + 1])

\* downloadVideo: the "Download MP4" button, rendered when the phase is
\* completed and a converted URL is set.
SingleDownloadVideo ==
    /\ single.conversionState.phase = "completed"
    /\ single.convertedVideoUrl # Null
    /\ single' =
         [single EXCEPT !.link =
             IF single.convertedVideoUrl # Null /\ single.uploadedFile # Null
             THEN [href |-> single.convertedVideoUrl,
                   download |-> ReplaceExt(File(single.uploadedFile, "mkv").name, "mp4"),
                   file |-> single.uploadedFile]
             ELSE NoLink]
    /\ UNCHANGED multi

\* await ffmpeg.load() resolves.
SingleLoadResolve(c) ==
    /\ c.pc = "load"
    /\ SingleStep(SingleGoto(
           [single EXCEPT !.ffmpegRef = c.ffmpeg,
                          !.conversionState = [phase |-> "converting", progress |-> 0]],
           c, "fetchFile"))

\* await ffmpeg.load() rejects.
SingleLoadReject(c) ==
    /\ c.pc = "load"
    /\ single.failures < MaxFailures
    /\ SingleStep(SingleCatch(single, c))

\* await fetchFile(file) resolves; ffmpeg.writeFile('input.mkv', ...) is called.
SingleFetchFileResolve(c) ==
    /\ c.pc = "fetchFile"
    /\ SingleStep(SingleGoto(single, c, "writeFile"))

\* await ffmpeg.writeFile resolves; ffmpeg.exec is called.
SingleWriteFileResolve(c) ==
    /\ c.pc = "writeFile"
    /\ SingleStep(SingleGoto([single EXCEPT !.fs = @ \cup {<<c.ffmpeg, "input.mkv">>}],
                             c, "exec"))

\* ffmpeg.on('progress', ...) while exec runs.
SingleProgress(c, percent) ==
    /\ c.pc = "exec"
    /\ SingleStep([single EXCEPT !.conversionState =
                      [phase |-> "converting", progress |-> percent]])

\* await ffmpeg.exec resolves; ffmpeg.readFile('output.mp4') is called.
SingleExecResolve(c) ==
    /\ c.pc = "exec"
    /\ SingleStep(SingleGoto([single EXCEPT !.fs = @ \cup {<<c.ffmpeg, "output.mp4">>}],
                             c, "readFile"))

\* await ffmpeg.readFile resolves: the blob URL is created and stored, the phase
\* is completed, and ffmpeg.deleteFile('input.mkv') is called.
SingleReadFileResolve(c) ==
    /\ c.pc = "readFile"
    /\ LET outputUrl == c.file
       IN  SingleStep(SingleGoto(
               [single EXCEPT !.objectURLs = @ @@ (outputUrl :> 0),
                              !.convertedVideoUrl = outputUrl,
                              !.conversionState = [phase |-> "completed",
                                                   progress |-> 100]],
               c, "deleteInput"))

\* await ffmpeg.deleteFile('input.mkv') resolves; deleteFile('output.mp4') is called.
SingleDeleteInputResolve(c) ==
    /\ c.pc = "deleteInput"
    /\ SingleStep(SingleGoto([single EXCEPT !.fs = @ \ {<<c.ffmpeg, "input.mkv">>}],
                             c, "deleteOutput"))

\* await ffmpeg.deleteFile('output.mp4') resolves; convertVideo and onDrop return.
SingleDeleteOutputResolve(c) ==
    /\ c.pc = "deleteOutput"
    /\ SingleStep([single EXCEPT !.fs = @ \ {<<c.ffmpeg, "output.mp4">>},
                                 !.calls = @ \ {c}])

\* An awaited call of fetchFile, writeFile, exec, readFile or deleteFile rejects.
SingleEngineReject(c) ==
    /\ c.pc \in {"fetchFile", "writeFile", "exec", "readFile", "deleteInput",
                 "deleteOutput"}
    /\ single.failures < MaxFailures
    /\ SingleStep(SingleCatch(single, c))

\* An awaited engine call of the single-file converter resolves.
SingleSettles ==
    \E c \in single.calls :
        \/ SingleLoadResolve(c)
        \/ SingleFetchFileResolve(c)
        \/ SingleWriteFileResolve(c)
        \/ SingleExecResolve(c)
        \/ SingleReadFileResolve(c)
        \/ SingleDeleteInputResolve(c)
        \/ SingleDeleteOutputResolve(c)

NextSingle ==
    \/ SingleOnDrop
    \/ SingleResetConverter
    \/ SingleDownloadVideo
    \/ \E c \in single.calls : SingleLoadResolve(c)
    \/ \E c \in single.calls : SingleLoadReject(c)
    \/ \E c \in single.calls : SingleFetchFileResolve(c)
    \/ \E c \in single.calls : SingleWriteFileResolve(c)
    \/ \E c \in single.calls : \E percent \in ProgressPercents : SingleProgress(c, percent)
    \/ \E c \in single.calls : SingleExecResolve(c)
    \/ \E c \in single.calls : SingleReadFileResolve(c)
    \/ \E c \in single.calls : SingleDeleteInputResolve(c)
    \/ \E c \in single.calls : SingleDeleteOutputResolve(c)
    \/ \E c \in single.calls : SingleEngineReject(c)

SpecSingle == Init /\ [][NextSingle]_vars

\* Every engine call that is awaited ends: it resolves, unless it rejects.
SpecSingleFair == Init /\ [][NextSingle]_vars /\ WF_vars(SingleSettles)

\* An awaited engine call of the multi-file converter resolves.
Settles ==
    \E c \in calls :
        \/ LoadResolve(c)
        \/ FetchFileResolve(c)
        \/ WriteFileResolve(c)
        \/ ExecResolve(c)
        \/ ReadFileResolve(c)
        \/ DeleteInputResolve(c)
        \/ DeleteOutputResolve(c)

\* Every interleaving, where every engine call that is awaited ends.
SpecFair == Init /\ [][Next]_vars /\ WF_vars(Settles)

\* ------------------------------------------------------------ claims C1..C10

Terminal == {"completed", "error"}

Converting == {i \in DOMAIN uploadedFiles : uploadedFiles[i].status = "converting"}

\* The engine calls of one convert sequence: writeFile, exec, readFile, deleteFile.
ConvertPcs == {"writeFile", "exec", "readFile", "deleteInput", "deleteOutput"}

\* The files whose ffmpeg.load() has rejected.
FailedLoads == {f \in DOMAIN engineResult : engineResult[f] = "load"}

\* C1: jobs are processed in submission order and one at a time: a job has left
\* pending only when the job before it is terminal, and at most one job is
\* converting.
C1_SerialOrder ==
    /\ Cardinality(Converting) <= 1
    /\ \A k \in DOMAIN uploadedFiles :
          (k > 1 /\ uploadedFiles[k].status # "pending")
              => uploadedFiles[k - 1].status \in Terminal

\* C2: at most one convert sequence is in flight on an engine instance.
C2_EngineExclusive ==
    \A c1 \in calls : \A c2 \in calls :
        (c1.pc \in ConvertPcs /\ c2.pc \in ConvertPcs /\ c1.ffmpeg = c2.ffmpeg)
            => c1 = c2

\* C3: the job list holds at most 5 jobs, they are the first 5 files handed over
\* (since the list was last cleared), and a file beyond them is in no job, is
\* driven by no invocation and has had no engine call end for it.
C3_Capacity ==
    /\ Len(uploadedFiles) <= MaxJobs
    /\ Len(uploadedFiles) = Min(MaxJobs, Len(submitted))
    /\ \A i \in DOMAIN uploadedFiles : uploadedFiles[i].file.id = submitted[i]
    /\ \A k \in DOMAIN submitted :
          k > MaxJobs =>
            /\ engineResult[submitted[k]] = "none"
            /\ \A c \in calls : \A j \in DOMAIN c.newFiles :
                  c.newFiles[j].file.id # submitted[k]

\* C3 witness: more than 5 files were handed over and 5 are tracked.
C3_Witness ==
    /\ Len(submitted) > MaxJobs
    /\ Len(uploadedFiles) = MaxJobs
    /\ \E i \in DOMAIN uploadedFiles : uploadedFiles[i].status \in Terminal

\* C4: the name of a download carries the format selected when the job's file
\* was dropped.
C4_DownloadName ==
    link # NoLink => link.download.ext = submitFormat[link.file]

\* C5: a completed job has its download URL and no error, a failed job its error
\* and no download URL, a pending or converting job neither.
C5_TerminalExclusive ==
    \A i \in DOMAIN uploadedFiles :
        LET fc == uploadedFiles[i]
        IN  /\ fc.status = "completed" =>
                 (fc.downloadUrl # NoUrl /\ fc.error = NoError)
            /\ fc.status = "error" =>
                 (fc.error # NoError /\ fc.downloadUrl = NoUrl)
            /\ fc.status \in {"pending", "converting"} =>
                 (fc.downloadUrl = NoUrl /\ fc.error = NoError)

\* One step of a job's record, forward along pending -> converting -> terminal.
Forward(a, b) ==
    /\ a.status = "pending" => b.status \in {"pending", "converting"}
    /\ a.status = "converting" => b.status \in {"converting"} \cup Terminal
    /\ a.status \in Terminal => b = a

\* C6: a job's status only moves forward, never from pending straight to a
\* terminal status, and a terminal job never changes again.
C6_ForwardOnly ==
    [][\A i \in DOMAIN uploadedFiles : \A j \in DOMAIN uploadedFiles' :
          uploadedFiles[i].file = uploadedFiles'[j].file
              => Forward(uploadedFiles[i], uploadedFiles'[j])]_vars

\* C7: a failure is local to its job: a job whose exec rejected is failed, a job
\* whose engine calls all resolved is completed, and every job that is not yet
\* terminal is still ahead in the loop of a suspended invocation of onDrop.
C7_FailureIsLocal ==
    \A i \in DOMAIN uploadedFiles :
        LET fc == uploadedFiles[i]
        IN  /\ engineResult[fc.file.id] = "exec" => fc.status = "error"
            /\ engineResult[fc.file.id] = "ok" => fc.status = "completed"
            /\ fc.status \notin Terminal =>
                 \E c \in calls : \E k \in c.idx..Len(c.newFiles) :
                     c.newFiles[k].file = fc.file

\* C7 witness: a batch of two has ended, the first job's exec rejected and the
\* second job is completed.
C7_Witness ==
    /\ calls = {}
    /\ resets = 0
    /\ Len(uploadedFiles) = 2
    /\ engineResult[uploadedFiles[1].file.id] = "exec"
    /\ uploadedFiles[1].status = "error"
    /\ uploadedFiles[2].status = "completed"

\* C8: when load() has rejected (and no engine was loaded), the phase is error
\* and every job is still pending.
C8_LoadFailureIsGlobal ==
    (FailedLoads # {} /\ ffmpegRef = Null) =>
        /\ conversionState.phase = "error"
        /\ \A i \in DOMAIN uploadedFiles : uploadedFiles[i].status = "pending"

\* C9: a step that leaves a load() failed starts no other load().
C9_NoRetry ==
    [][(\E f \in DOMAIN engineResult' : engineResult'[f] = "load")
          => instances' = instances]_vars

\* C10: the engine is initialized once: an instance is made only when none is
\* loading or loaded (so at most one more than the loads that rejected), and
\* the invocations past initializeFFmpeg all hold the same instance.
C10_InitializedOnce ==
    /\ instances <= 1 + Cardinality(FailedLoads)
    /\ \A c1 \in calls : \A c2 \in calls :
          (c1.pc \in ConvertPcs /\ c2.pc \in ConvertPcs) => c1.ffmpeg = c2.ffmpeg

\* ------------------------------------------------------------ claims C11..C20

\* The jobs of the list that hold the handle h.
Holders(h) == {i \in DOMAIN uploadedFiles : uploadedFiles[i].downloadUrl = h}

\* The list is not empty, every job is terminal and one is completed.
AllTerminalOneCompleted ==
    /\ \A i \in DOMAIN uploadedFiles : uploadedFiles[i].status \in Terminal
    /\ \E i \in DOMAIN uploadedFiles : uploadedFiles[i].status = "completed"

\* C11: when the phase is completed, every job of the list is terminal and at
\* least one is completed.
C11_CompletedMeansAllTerminal ==
    conversionState.phase = "completed" => AllTerminalOneCompleted

\* C12: a batch with a failed job still ends in phase completed: when no
\* invocation of onDrop is suspended any more (so that only a user event can
\* still change the phase), every job is terminal and one is completed, the
\* phase is completed.
C12_BatchEndsCompleted ==
    (calls = {} /\ AllTerminalOneCompleted) => conversionState.phase = "completed"

\* C13: the phase is converting only while some job is converting.
C13_ConvertingMeansJobConverting ==
    conversionState.phase = "converting" => Converting # {}

C15_EmptyListIsIdle ==
    uploadedFiles = <<>> => conversionState.phase = "idle"

\* C16: every handle created and not revoked is held by exactly one job of the
\* list.
C16_NoOrphanHandle ==
    \A h \in DOMAIN objectURLs :
        objectURLs[h].revoked = 0 => Cardinality(Holders(h)) = 1

\* C17: a reset leaves the engine as it is, and a drop made while an engine is
\* held makes no new instance (so calls no load()), keeps the instance and does
\* not set the phase loading.
C17_ResetKeepsEngine ==
    [][/\ resets' # resets =>
            (ffmpegRef' = ffmpegRef /\ instances' = instances)
       /\ (nextFile' # nextFile /\ ffmpegRef # Null) =>
            /\ ffmpegRef' = ffmpegRef
            /\ instances' = instances
            /\ conversionState'.phase # "loading"
            /\ \A c \in calls' \ calls : c.ffmpeg = ffmpegRef]_vars

\* C17 witness: a handle was revoked by a reset (so the engine was loaded before
\* it), and a job dropped after the reset is being converted on the one instance
\* ever made.
C17_Witness ==
    /\ resets > 0
    /\ \E h \in DOMAIN objectURLs : objectURLs[h].revoked = 1
    /\ instances = 1
    /\ ffmpegRef = 1
    /\ \E c \in calls :
          /\ c.pc \in ConvertPcs
          /\ c.ffmpeg = ffmpegRef
          /\ \E i \in DOMAIN uploadedFiles :
                /\ uploadedFiles[i].file = Current(c).file
                /\ uploadedFiles[i].status = "converting"

\* C18: every entry of the engines' file systems belongs to a conversion that
\* is still in flight.
C18_NoEntryOutlivesConversion ==
    \A e \in fs :
        \E c \in calls :
            /\ c.pc \in ConvertPcs
            /\ e \in {InputName(c), OutputName(c)}

C20_SubmissionFormat ==
    /\ \A e \in fs : e[2] = "output" => e[4] = submitFormat[e[3]]
    /\ \A h \in DOMAIN objectURLs :
          objectURLs[h].type = MimeType(submitFormat[h])
    /\ \A c \in calls :
          ConvertFormat(c) = submitFormat[Current(c).file.id]

\* C20 witness: a job of the list has its output entry written in the format of
\* its drop while another format is selected.
C20_Witness ==
    \E c \in calls :
        /\ OutputName(c) \in fs
        /\ ConvertFormat(c) # outputFormat
        /\ \E i \in DOMAIN uploadedFiles : uploadedFiles[i].file = Current(c).file

\* ------------------------------------------------------------ claims C21..C30

\* The option x followed by the value y is in the args a.
HasOption(a, x, y) == \E i \in 1..(Len(a) - 1) : a[i] = x /\ a[i + 1] = y

\* C21: the args of an exec in flight hold "-c", "copy" and "-movflags",
\* "+faststart" for every format but gif, and do not hold "-c", "copy" for gif.
C21_StreamCopy ==
    \A c \in calls :
        c.pc = "exec" =>
            IF ConvertFormat(c) = "gif"
            THEN ~HasOption(c.args, "-c", "copy")
            ELSE /\ HasOption(c.args, "-c", "copy")
                 /\ HasOption(c.args, "-movflags", "+faststart")

\* C21 witness: an exec for gif is in flight.
C21_Witness ==
    \E c \in calls : c.pc = "exec" /\ ConvertFormat(c) = "gif"

\* C22: the error an engine call rejected with is kept nowhere in the state: a
\* failed job's error is 'Conversion failed', no job holds an engine error and
\* no suspended invocation holds a caught error.
C22_FixedFailureText ==
    /\ \A i \in DOMAIN uploadedFiles :
          /\ uploadedFiles[i].status = "error" =>
                uploadedFiles[i].error = "Conversion failed"
          /\ uploadedFiles[i].error \notin EngineErrors
    /\ \A c \in calls : c.error = NoError

\* C22 witness: a job whose engine call rejected is failed.
C22_Witness ==
    \E i \in DOMAIN uploadedFiles :
        /\ uploadedFiles[i].status = "error"
        /\ engineResult[uploadedFiles[i].file.id] \in
               {"fetchFile", "writeFile", "exec", "readFile"}

\* C23: a link is clicked only for a completed job of the list, with the job's
\* handle, which is not revoked, and the step changes nothing else.
C23_DownloadOnlyCompleted ==
    [][link' # NoLink =>
          /\ \E i \in DOMAIN uploadedFiles :
                /\ uploadedFiles[i].status = "completed"
                /\ uploadedFiles[i].file.id = link'.file
                /\ uploadedFiles[i].downloadUrl = link'.href
                /\ objectURLs[link'.href].revoked = 0
          /\ UNCHANGED <<conversionState, uploadedFiles, outputFormat, ffmpegRef,
                         calls, instances, fs, objectURLs, nextFile, failures,
                         resets, submitted, submitFormat, engineResult>>]_vars

\* C23 witness: a completed job was downloaded while another job is not completed.
C23_Witness ==
    /\ link # NoLink
    /\ \E j \in DOMAIN uploadedFiles : uploadedFiles[j].status # "completed"

\* C25: while a job is converting, its progress and the progress of
\* conversionState do not decrease, and both are 0 when it starts converting.
C25_ProgressMonotone ==
    [][\A i \in DOMAIN uploadedFiles : \A j \in DOMAIN uploadedFiles' :
          (uploadedFiles[i].file = uploadedFiles'[j].file /\
           uploadedFiles'[j].status = "converting") =>
              IF uploadedFiles[i].status = "converting"
              THEN /\ uploadedFiles'[j].progress >= uploadedFiles[i].progress
                   /\ conversionState'.progress >= conversionState.progress
              ELSE /\ uploadedFiles'[j].progress = 0
                   /\ conversionState'.progress = 0]_vars

\* C26: a drop appends: the jobs of the list stay as they are, and the files of
\* the drop that fit follow them in their order, pending with progress 0 and
\* nothing else set (the first of them is converting already when the engine is
\* loaded, as its conversion starts in the same step).
C26_DropAppends ==
    [][nextFile' # nextFile =>
          LET old == Len(uploadedFiles)
              k == Min(nextFile' - nextFile, MaxJobs - old)
          IN  /\ Len(uploadedFiles') = old + k
              /\ \A i \in 1..old : uploadedFiles'[i] = uploadedFiles[i]
              /\ \A j \in 1..k :
                    LET fc == uploadedFiles'[old + j]
                    IN  /\ fc.file.id = nextFile + j - 1
                        /\ fc.progress = 0
                        /\ fc.downloadUrl = NoUrl
                        /\ fc.error = NoError
                        /\ fc.status \in {"pending"} \cup
                               (IF j = 1 THEN {"converting"} ELSE {})]_vars

\* C26 witness: a file was dropped on a list that held a completed job.
C26_Witness ==
    /\ Len(uploadedFiles) = 2
    /\ uploadedFiles[1].status = "completed"
    /\ uploadedFiles[1].downloadUrl # NoUrl
    /\ uploadedFiles[2].status \in {"pending", "converting"}
    /\ engineResult[uploadedFiles[2].file.id] = "none"

\* C28: the args of an exec for gif are "-i", the input name, "-movflags",
\* "+faststart" and the output name.
C28_GifCommand ==
    \A c \in calls :
        (c.pc = "exec" /\ ConvertFormat(c) = "gif") =>
            c.args = <<"-i", "inputName", "-movflags", "+faststart", "outputName">>

\* An update of the job of file leaves the list's length, the files' order and
\* every other job as they are.
OnlyThatJob(file, patch) ==
    LET new == MapFile(uploadedFiles, file, patch)
    IN  /\ Len(new) = Len(uploadedFiles)
        /\ \A i \in DOMAIN uploadedFiles :
              /\ new[i].file = uploadedFiles[i].file
              /\ uploadedFiles[i].file # file => new[i] = uploadedFiles[i]

\* C29: each of the three updates of an invocation's job changes that job's
\* entry only (a file is in one job at most); and a step other than a drop or
\* a reset keeps the list's length and order, and changes only jobs that a
\* suspended invocation is driving or drives next.
C29_UpdateIsLocal ==
    /\ [](\A c \in calls :
             /\ OnlyThatJob(Current(c).file, MarkConverting)
             /\ OnlyThatJob(Current(c).file, MarkCompleted(Current(c).file.id))
             /\ OnlyThatJob(Current(c).file, MarkError)
             /\ Cardinality({i \in DOMAIN uploadedFiles :
                                uploadedFiles[i].file = Current(c).file}) <= 1)
    /\ [][(nextFile' = nextFile /\ resets' = resets) =>
             /\ Len(uploadedFiles') = Len(uploadedFiles)
             /\ \A i \in DOMAIN uploadedFiles :
                   /\ uploadedFiles'[i].file = uploadedFiles[i].file
                   /\ uploadedFiles'[i] # uploadedFiles[i] =>
                         \E c \in calls : \E k \in {c.idx, c.idx + 1} :
                             /\ k \in DOMAIN c.newFiles
                             /\ c.newFiles[k].file = uploadedFiles[i].file]_vars

\* C29 witness: a job is being converted next to a completed job.
C29_Witness ==
    \E c \in calls : \E i \in DOMAIN uploadedFiles : \E j \in DOMAIN uploadedFiles :
        /\ uploadedFiles[i].file = Current(c).file
        /\ uploadedFiles[i].status = "converting"
        /\ uploadedFiles[j].status = "completed"
        /\ uploadedFiles[j].downloadUrl # NoUrl

\* The job of file f in the list is not terminal.
Unfinished(f) ==
    \E i \in DOMAIN uploadedFiles :
        uploadedFiles[i].file.id = f /\ uploadedFiles[i].status \notin Terminal

\* C24: a job of the list that is pending or converting is terminal later, or
\* removed by a reset.
C24_EveryJobEnds ==
    \A f \in 1..(MaxFiles + 1) : Unfinished(f) ~> ~Unfinished(f)

\* C24 witness: the job after one whose load() rejected is completed.
C24_Witness ==
    /\ Len(uploadedFiles) = 2
    /\ engineResult[uploadedFiles[1].file.id] = "load"
    /\ uploadedFiles[1].status = "error"
    /\ uploadedFiles[2].status = "completed"

\* C27: in the single-file converter a drop starts the conversion of its file,
\* the phase is completed only with a converted URL set, and a phase loading or
\* converting is followed by completed or error.
C27_SingleEnds ==
    /\ [][single'.nextFile # single.nextFile =>
             \E c \in single'.calls : c.file = single.nextFile]_vars
    /\ [](single.conversionState.phase = "completed" =>
             single.convertedVideoUrl # Null)
    /\ (single.conversionState.phase \in {"loading", "converting"})
           ~> (single.conversionState.phase \in {"completed", "error"})

\* C27 witness: the single-file converter has completed a conversion.
C27_Witness ==
    /\ single.conversionState.phase = "completed"
    /\ single.convertedVideoUrl # Null
    /\ single.uploadedFile = single.convertedVideoUrl
    /\ single.calls = {}

\* C30: in the single-file converter a converted URL that is set was made from
\* the file that is uploaded.
C30_UrlOfUploadedFile ==
    single.convertedVideoUrl # Null =>
        single.uploadedFile = single.convertedVideoUrl

\* ------------------------------------------------------------ claim C31

\* C31: in the single-file converter at most one conversion is in flight, and no
\* two invocations have their calls on 'input.mkv' and 'output.mp4' in flight
\* on the same instance.
C31_SingleConversion ==
    /\ Cardinality(single.calls) <= 1
    /\ \A c1 \in single.calls : \A c2 \in single.calls :
          (c1.pc \in ConvertPcs /\ c2.pc \in ConvertPcs /\ c1.ffmpeg = c2.ffmpeg)
              => c1 = c2

====
